---- MODULE Spec2Model ----
(***************************************************************************)
(* MifloraWorker (workers/miflora.py): the status_update generator, the   *)
(* success transition update_device_state and the failure transition      *)
(* avail_offline, driven by a consumer that iterates the generator and by *)
(* the SIGALRM timer of interruptingcow's timeout().                      *)
(*                                                                         *)
(* error_count and is_online are attributes of the worker object: there   *)
(* is one pair for the whole worker, whatever the number of devices.      *)
(***************************************************************************)
EXTENDS Naturals, Sequences, FiniteSets

(* ---- bounds of the exploration ---- *)
MaxDevices == 2
MaxThreshold == 3
MaxRetries == 1
MaxPolls == 5

VARIABLES
  ndev,               \* len(self.devices); the dict iterates 1..ndev
  errors_to_offline,  \* self.errors_to_offline
  update_retries,     \* self.update_retries
  error_count,        \* self.error_count
  is_online,          \* self.is_online: "None" | "True" | "False"
  pc,                 \* where the generator (or its consumer) stands
  idx,                \* position of the for loop in self.devices
  attempt,            \* failed calls of update_device_state in this poll
  ret,                \* the list update_device_state is about to return
  out,                \* what the generator yielded in this cycle, in order
  polled,             \* observer: <<device, outcome, late>> of this cycle's polls
  prevPolled,         \* observer: polled of the cycle before
  drained,            \* observer: the last cycle ended by StopIteration
  prevOut,            \* observer: out of the cycle before
  surfaced,           \* observer: DeviceTimeoutError was raised in the consumer
  lateSeen,           \* observer: a timeout fired after the reads had returned
  cycle,              \* observer: number of cycles started
  polls,              \* observer: number of polls started
  streak,             \* observer: per device, failed polls since its last success
  lastAvail,          \* observer: per device, payload of its last availability message
  left,               \* observer: per device, <<error_count, is_online>> its last poll left
  atStart,            \* observer: <<error_count, is_online>> when the current poll began
  last                \* observer: the poll that completed last

config == <<ndev, errors_to_offline, update_retries>>
worker == <<error_count, is_online>>
observers == <<polled, prevPolled, prevOut, drained, surfaced, lateSeen, cycle, polls,
               streak, lastAvail, left, atStart, last>>
vars == <<config, worker, pc, idx, attempt, ret, out, observers>>

Devices == 1..ndev

(* ---- messages ---- *)
Telemetry(name) == [name |-> name, attr |-> "state", payload |-> "readings"]

Availability(name, payload) == [name |-> name, attr |-> "availability", payload |-> payload]

IsAvail(m) == m.attr = "availability"

AvailOf(msgs) == SelectSeq(msgs, IsAvail)

(* ---- the two conditions of the tracker ---- *)
OfflineCondNoStatus(ec, online) == ec >= errors_to_offline

(* line 111 *)
OfflineCond(ec, online) == ec >= errors_to_offline /\ online # "False"

OnlineCondAlways(ec, online) == TRUE

(* line 161 *)
OnlineCond(ec, online) == ec >= errors_to_offline \/ online # "True"

(* ---- workers.base.retry: up to retries + 1 calls ---- *)
CanRetry(r) == r < update_retries

NoPoll == [dev |-> 0, outcome |-> "none", late |-> FALSE, msgs |-> <<>>,
           fails |-> 0, streakBefore |-> 0, availBefore |-> "none"]

Init ==
  /\ ndev \in 1..MaxDevices
  /\ errors_to_offline \in 1..MaxThreshold
  /\ update_retries \in 0..MaxRetries
  /\ error_count = 0
  /\ is_online = "None"
  /\ pc = "idle"
  /\ idx = 0
  /\ attempt = 0
  /\ ret = <<>>
  /\ out = <<>>
  /\ polled = <<>>
  /\ prevPolled = <<>>
  /\ drained = FALSE
  /\ prevOut = <<>>
  /\ surfaced = FALSE
  /\ lateSeen = FALSE
  /\ cycle = 0
  /\ polls = 0
  /\ streak = [d \in 1..ndev |-> 0]
  /\ lastAvail = [d \in 1..ndev |-> "none"]
  /\ left = [d \in 1..ndev |-> <<0, "None">>]
  /\ atStart = <<0, "None">>
  /\ last = NoPoll

(* The observers' record of a completed poll of device idx. *)
Completed(outcome, late, msgs, ec, online) ==
  /\ polled' = Append(polled, <<idx, outcome, late>>)
  /\ lateSeen' = (lateSeen \/ late)
  /\ streak' = [streak EXCEPT ![idx] = IF outcome = "success" THEN 0 ELSE @ + 1]
  /\ lastAvail' = [lastAvail EXCEPT ![idx] =
                     IF AvailOf(msgs) = <<>> THEN @
                     ELSE AvailOf(msgs)[Len(AvailOf(msgs))].payload]
  /\ left' = [left EXCEPT ![idx] = <<ec, online>>]
  /\ last' = [dev |-> idx, outcome |-> outcome, late |-> late, msgs |-> msgs,
              fails |-> attempt, streakBefore |-> streak[idx],
              availBefore |-> lastAvail[idx]]

(* The consumer calls status_update(): a generator object, nothing run yet. *)
StartCycle ==
  /\ pc = "idle"
  /\ polls < MaxPolls
  /\ pc' = "created"
  /\ idx' = 0
  /\ out' = <<>>
  /\ polled' = <<>>
  /\ prevPolled' = polled
  /\ prevOut' = out
  /\ drained' = FALSE
  /\ cycle' = cycle + 1
  /\ UNCHANGED <<config, worker, attempt, ret, surfaced, lateSeen, polls, streak,
                 lastAvail, left, atStart, last>>

(* next() with a device left: the with block (if any) exits, the for loop *)
(* advances, timeout() arms the timer and update_device_state is called.  *)
NextDevice ==
  /\ pc \in {"created", "susp_ok", "susp_fail"}
  /\ idx < ndev
  /\ polls < MaxPolls
  /\ idx' = idx + 1
  /\ attempt' = 0
  /\ ret' = <<>>
  /\ pc' = "reading"
  /\ polls' = polls + 1
  /\ atStart' = worker
  /\ UNCHANGED <<config, worker, out, polled, prevPolled, prevOut, drained, surfaced,
                 lateSeen, cycle, streak, lastAvail, left, last>>

(* next() with no device left: the generator returns. *)
StopIteration ==
  /\ pc \in {"created", "susp_ok", "susp_fail"}
  /\ idx = ndev
  /\ pc' = "idle"
  /\ drained' = TRUE
  /\ UNCHANGED <<config, worker, idx, attempt, ret, out, polled, prevPolled, prevOut,
                 surfaced, lateSeen, cycle, polls, streak, lastAvail, left, atStart, last>>

AbandonAsFailure ==
  /\ pc \in {"susp_ok", "susp_fail"}
  /\ pc' = "idle"
  /\ error_count' = error_count + 1
  /\ UNCHANGED <<config, is_online, idx, attempt, ret, out, observers>>

(* The consumer stops iterating; the generator is closed where it stands. *)
Abandon ==
  /\ pc \in {"susp_ok", "susp_fail"}
  /\ pc' = "idle"
  /\ UNCHANGED <<config, worker, idx, attempt, ret, out, polled, prevPolled, prevOut,
                 drained, surfaced, lateSeen, cycle, polls, streak, lastAvail, left, atStart, last>>

avail_offline_per_attempt(outcome, late) ==
  LET ec == error_count + attempt + 1
      fire == OfflineCond(ec, is_online)
      msgs == IF fire THEN <<Availability(idx, "offline")>> ELSE <<>>
      online == IF fire THEN "False" ELSE is_online
  IN /\ error_count' = ec
     /\ is_online' = online
     /\ out' = Append(out, msgs)
     /\ pc' = "susp_fail"
     /\ Completed(outcome, late, msgs, ec, online)
     /\ UNCHANGED <<config, idx, attempt, ret, prevPolled, prevOut, drained, surfaced,
                    cycle, polls, atStart>>

avail_offline_resets(outcome, late) ==
  LET ec == error_count + 1
      fire == OfflineCond(ec, is_online)
      msgs == IF fire THEN <<Availability(idx, "offline")>> ELSE <<>>
      online == IF fire THEN "False" ELSE is_online
      after == IF fire THEN 0 ELSE ec
  IN /\ error_count' = after
     /\ is_online' = online
     /\ out' = Append(out, msgs)
     /\ pc' = "susp_fail"
     /\ Completed(outcome, late, msgs, after, online)
     /\ UNCHANGED <<config, idx, attempt, ret, prevPolled, prevOut, drained, surfaced,
                    cycle, polls, atStart>>

(* avail_offline(name), and the yield of its result. *)
avail_offline(outcome, late) ==
  LET ec == error_count + 1
      fire == OfflineCond(ec, is_online)
      msgs == IF fire THEN <<Availability(idx, "offline")>> ELSE <<>>
      online == IF fire THEN "False" ELSE is_online
  IN /\ error_count' = ec
     /\ is_online' = online
     /\ out' = Append(out, msgs)
     /\ pc' = "susp_fail"
     /\ Completed(outcome, late, msgs, ec, online)
     /\ UNCHANGED <<config, idx, attempt, ret, prevPolled, prevOut, drained, surfaced,
                    cycle, polls, atStart>>

(* A read raises BluetoothBackendException and retry() calls again. *)
RetryRead ==
  /\ pc = "reading"
  /\ CanRetry(attempt)
  /\ attempt' = attempt + 1
  /\ UNCHANGED <<config, worker, pc, idx, ret, out, observers>>

(* A read raises BluetoothBackendException and retry() re-raises it. *)
TransportFailure ==
  /\ pc = "reading"
  /\ ~CanRetry(attempt)
  /\ avail_offline("transport", FALSE)

ReadSucceedsOnlineFirst ==
  /\ pc = "reading"
  /\ LET fire == OnlineCond(error_count, is_online)
     IN /\ ret' = (IF fire THEN <<Availability(idx, "online")>> ELSE <<>>) \o
                    <<Telemetry(idx)>>
        /\ is_online' = IF fire THEN "True" ELSE is_online
  /\ pc' = "line164"
  /\ UNCHANGED <<config, error_count, idx, attempt, out, observers>>

(* The reads return: lines 153-163 of update_device_state. *)
ReadSucceeds ==
  /\ pc = "reading"
  /\ LET fire == OnlineCond(error_count, is_online)
     IN /\ ret' = <<Telemetry(idx)>> \o
                    (IF fire THEN <<Availability(idx, "online")>> ELSE <<>>)
        /\ is_online' = IF fire THEN "True" ELSE is_online
  /\ pc' = "line164"
  /\ UNCHANGED <<config, error_count, idx, attempt, out, observers>>

ResetCountSkipped ==
  /\ pc = "line164"
  /\ pc' = "return"
  /\ UNCHANGED <<config, worker, idx, attempt, ret, out, observers>>

(* self.error_count = 0 *)
ResetCount ==
  /\ pc = "line164"
  /\ error_count' = 0
  /\ pc' = "return"
  /\ UNCHANGED <<config, is_online, idx, attempt, ret, out, observers>>

(* return ret, through retry(), to the yield of line 127: the generator *)
(* is suspended inside the with block.                                   *)
YieldResult ==
  /\ pc = "return"
  /\ out' = Append(out, ret)
  /\ pc' = "susp_ok"
  /\ Completed("success", FALSE, ret, error_count, is_online)
  /\ UNCHANGED <<config, worker, idx, attempt, ret, prevPolled, prevOut, drained,
                 surfaced, cycle, polls, atStart>>

TimeoutRetried ==
  /\ pc \in {"reading", "line164", "return"}
  /\ IF pc = "reading" /\ CanRetry(attempt)
     THEN attempt' = attempt + 1 /\ UNCHANGED <<config, worker, pc, idx, ret, out, observers>>
     ELSE avail_offline("timeout", pc # "reading")

(* SIGALRM while the generator runs inside the with block: the handler *)
(* raises DeviceTimeoutError there, caught at line 139.                 *)
Timeout ==
  /\ pc \in {"reading", "line164", "return"}
  /\ avail_offline("timeout", pc # "reading")

(* SIGALRM while the generator is suspended at the yield of line 127: the *)
(* handler raises DeviceTimeoutError in the consumer's frame.             *)
TimeoutInConsumer ==
  /\ pc = "susp_ok"
  /\ surfaced' = TRUE
  /\ pc' = "idle"
  /\ UNCHANGED <<config, worker, idx, attempt, ret, out, polled, prevPolled, prevOut,
                 drained, lateSeen, cycle, polls, streak, lastAvail, left, atStart, last>>

Next ==
  \/ StartCycle
  \/ NextDevice
  \/ StopIteration
  \/ Abandon
  \/ RetryRead
  \/ TransportFailure
  \/ ReadSucceeds
  \/ ResetCount
  \/ YieldResult
  \/ Timeout
  \/ TimeoutInConsumer

Spec == Init /\ [][Next]_vars

(* ---- what the claims speak of ---- *)
JustFailed == pc = "susp_fail"

JustSucceeded == pc = "susp_ok"

Offline(d) == Availability(d, "offline")

Online(d) == Availability(d, "online")

Has(msgs, m) == \E i \in 1..Len(msgs) : msgs[i] = m

(* C1: in a run of consecutive failed polls of a device, the offline event *)
(* of that device is emitted exactly once, by the failed poll that brings  *)
(* the device's own failure streak to errors_to_offline, and by no other   *)
(* failed poll of the run.                                                  *)
C1_OfflineOncePerRun ==
  JustFailed =>
    /\ Has(last.msgs, Offline(last.dev)) <=> (streak[last.dev] = errors_to_offline)
    /\ Len(last.msgs) <= 1

(* C2: a successful poll leaves the failure streak at 0, and a successful  *)
(* poll of a device whose last announced status is offline emits exactly   *)
(* one online event for it and sets the status to Online.                  *)
C2_SuccessResets ==
  JustSucceeded =>
    /\ error_count = 0
    /\ streak[last.dev] = 0
    /\ last.availBefore = "offline" =>
         /\ AvailOf(last.msgs) = <<Online(last.dev)>>
         /\ is_online = "True"

(* C3: the availability events of one device alternate: a poll never emits *)
(* the status that was last emitted for the same device, and emits at most *)
(* one availability event.                                                  *)
C3_EventsAlternate ==
  pc \in {"susp_ok", "susp_fail"} =>
    /\ Len(AvailOf(last.msgs)) <= 1
    /\ \A i \in 1..Len(AvailOf(last.msgs)) :
         /\ AvailOf(last.msgs)[i].name = last.dev
         /\ AvailOf(last.msgs)[i].payload # last.availBefore

(* C4: the status starts Unknown, and the first successful poll of every   *)
(* device for which no status was announced yet emits an online event for  *)
(* that device and sets the status to Online.                              *)
C4_FirstSuccessOnline ==
  /\ polls = 0 => is_online = "None" /\ \A d \in Devices : lastAvail[d] = "none"
  /\ (JustSucceeded /\ last.availBefore = "none") =>
       /\ Has(last.msgs, Online(last.dev))
       /\ is_online = "True"

(* C5: a poll of device X leaves the failure streak and the status of every *)
(* other device Y unchanged: when a poll of Y begins, the streak and status *)
(* it reads are those Y's own last poll left (0 and Unknown before any).    *)
C5_DevicesIndependent ==
  pc = "reading" => worker = left[idx]

(* ---- scenarios ---- *)
Flat(yields) ==
  LET F[i \in 0..Len(yields)] == IF i = 0 THEN <<>> ELSE F[i - 1] \o yields[i]
  IN F[Len(yields)]

AllSucceeded(p) == Len(p) = ndev /\ \A i \in 1..Len(p) : p[i] = <<i, "success", FALSE>>

CountOf(msgs, m) == Cardinality({i \in 1..Len(msgs) : msgs[i] = m})

(* A succeeds, B's read never returns in time. *)
AOkBTimesOut == <<<<1, "success", FALSE>>, <<2, "timeout", FALSE>>>>

(* C6: devices A (always succeeds) and B (always times out), threshold 1.  *)
(* The first cycle outputs telemetry for A and an offline event for B; the *)
(* second cycle outputs telemetry for A only: no availability event for    *)
(* either device.                                                           *)
C6_TwoDeviceScenario ==
  (ndev = 2 /\ errors_to_offline = 1 /\ polled = AOkBTimesOut) =>
    /\ cycle = 1 =>
         /\ Has(out[1], Telemetry(1))
         /\ out[2] = <<Offline(2)>>
    /\ (cycle = 2 /\ prevPolled = AOkBTimesOut) =>
         out = << <<Telemetry(1)>>, <<>> >>

(* C7: one device, threshold 3, polls ending failure, failure, failure,    *)
(* failure, success (a failure: the read failed after its retries, or the  *)
(* deadline passed while it was in flight): nothing is emitted by polls 1  *)
(* and 2, one offline event by poll 3, nothing by poll 4 (streak 4), and   *)
(* poll 5 emits the telemetry record and one online event and resets the   *)
(* streak to 0.                                                             *)
InScenario7 == ndev = 1 /\ errors_to_offline = 3 /\ ~lateSeen

TwoCyclesAllSucceeded ==
  pc = "idle" /\ drained /\ AllSucceeded(polled) /\ AllSucceeded(prevPolled)

C8_AllSuccessIdempotent ==
  TwoCyclesAllSucceeded =>
    /\ AvailOf(Flat(out)) = <<>>
    /\ Flat(out) = [i \in 1..ndev |-> Telemetry(i)]
    /\ \A d \in Devices : CountOf(Flat(prevOut) \o Flat(out), Online(d)) <= 1

C8_Reached ==
  TwoCyclesAllSucceeded /\ ndev = 2 /\ Has(Flat(prevOut), Online(1))

(* C9: a failed poll never aborts the cycle: a cycle drained to the end    *)
(* has polled every device exactly once, in iteration order; and neither   *)
(* failure kind is ever raised in the caller.                              *)
C9_CycleNeverFails ==
  /\ (pc = "idle" /\ drained) =>
       /\ Len(polled) = ndev
       /\ \A i \in 1..Len(polled) : polled[i][1] = i
  /\ ~surfaced

(* C10: a poll whose read raises the transport error k <= retries times    *)
(* and then returns, the deadline not passing, takes the success path: the *)
(* telemetry record is yielded, the failure count is 0 and no offline      *)
(* event comes out of that poll.                                            *)
C10_RetryLaw ==
  JustSucceeded =>
    /\ last.fails <= update_retries
    /\ last.outcome = "success"
    /\ out[Len(out)] = last.msgs
    /\ last.msgs[1] = Telemetry(last.dev)
    /\ ~Has(last.msgs, Offline(last.dev))
    /\ error_count = 0

C10_Reached ==
  JustSucceeded /\ last.fails >= 1 /\ last.streakBefore >= 1

(* C11: the deadline passing while a device's read is in flight, whatever  *)
(* retry budget remains, ends that poll as a timeout failure: it is not    *)
(* retried, no further read of the device is started in the cycle, and the *)
(* poll counts as exactly one failure.                                      *)
TimedOutInFlight == JustFailed /\ last.outcome = "timeout" /\ ~last.late

C11_TimeoutTakesPrecedence ==
  /\ pc = "reading" =>
       ENABLED (Timeout /\ pc' = "susp_fail" /\ error_count' = error_count + 1)
  /\ TimedOutInFlight =>
       /\ error_count = atStart[1] + 1
       /\ Len(polled) = idx
       /\ polled[idx] = <<idx, "timeout", FALSE>>
       /\ ~ENABLED (RetryRead \/ ReadSucceeds \/ TransportFailure)

C11_Reached == TimedOutInFlight /\ last.fails < update_retries /\ atStart[1] >= 1

(* C12: the state is written only once a poll's outcome is known: a poll   *)
(* that ends as a failure (a timeout at any point of the guarded call      *)
(* included) counts one more failure, never resets the count and never     *)
(* sets the status to Online; the poll that sets the status to Online has  *)
(* emitted the online event.                                                *)
C12_StateFollowsOutcome ==
  /\ JustFailed =>
       /\ error_count = atStart[1] + 1
       /\ is_online = "True" => atStart[2] = "True"
  /\ (pc \in {"susp_ok", "susp_fail"} /\ is_online = "True" /\ atStart[2] # "True") =>
       Has(last.msgs, Online(last.dev))

(* C13: the deadline timer is armed only while the guarded read runs and   *)
(* is disarmed before the result is handed to the consumer: no timeout is  *)
(* raised while the generator is suspended at a yield, in the consumer.    *)
C13_TimerDisarmedAtYield == surfaced = FALSE

(* C14: within one poll the read is called at most update_retries + 1      *)
(* times, and when every call fails with the transport error the failure   *)
(* count grows by exactly 1 for the poll, not by 1 per call.               *)
RetriesExhausted == JustFailed /\ last.outcome = "transport"

C14_RetryBoundCountedOnce ==
  /\ pc = "reading" => attempt + 1 <= update_retries + 1
  /\ RetriesExhausted =>
       /\ last.fails + 1 = update_retries + 1
       /\ error_count = atStart[1] + 1

C14_Reached == RetriesExhausted /\ last.fails >= 1 /\ atStart[1] >= 1

(* C15: after n consecutive failed polls of a device since its last        *)
(* success (or since the start) the device's failure streak is n, also for *)
(* n above the threshold while the device stays Offline, and it is 0 only  *)
(* after a successful poll.                                                 *)
C15_StreakCountsFailedPolls ==
  pc \in {"susp_ok", "susp_fail"} => error_count = streak[last.dev]

(* C16: in one cycle a successful poll yields exactly one telemetry record *)
(* of its device, followed at once by the online event if there is one; a  *)
(* failed poll yields no telemetry and at most one availability event, an  *)
(* offline one; the outputs come in the devices' iteration order.          *)
C16_OutputShape ==
  /\ Len(out) = Len(polled)
  /\ \A i \in 1..Len(out) :
       /\ polled[i][1] = i
       /\ polled[i][2] = "success" =>
            out[i] \in {<<Telemetry(i)>>, <<Telemetry(i), Online(i)>>}
       /\ polled[i][2] # "success" =>
            out[i] \in {<<>>, <<Offline(i)>>}

C16_Reached ==
  /\ ndev = 2
  /\ out = << <<Telemetry(1), Online(1)>>, <<Offline(2)>> >>

(* C17: a transport failure and a timeout failure are treated alike: a     *)
(* failed poll of either kind leaves the count and status, and yields the  *)
(* events, that the transport failure of that poll would have: one more    *)
(* failure counted from the state the poll began in, offline emitted (and  *)
(* the status set) if that reaches the threshold and the status was not    *)
(* Offline.                                                                 *)
C17_FailureKindsAlike ==
  JustFailed =>
    LET ec == atStart[1] + 1
        fire == OfflineCond(ec, atStart[2])
    IN /\ error_count = ec
       /\ is_online = (IF fire THEN "False" ELSE atStart[2])
       /\ last.msgs = (IF fire THEN <<Offline(last.dev)>> ELSE <<>>)

(* C18: the generator is lazy: no read of a device starts before the       *)
(* consumer asks for the next element, so when the consumer stops after    *)
(* device i's output no later device of the cycle has been read and the    *)
(* count and status are those device i's poll left.                        *)
C18_LazyBetweenDevices ==
  /\ pc = "created" => (polled = <<>> /\ idx = 0 /\ out = <<>>)
  /\ (pc \in {"susp_ok", "susp_fail", "idle"} /\ cycle >= 1) =>
       /\ Len(polled) = idx
       /\ Len(out) = idx
       /\ worker = left[idx]
  /\ pc \in {"created", "susp_ok", "susp_fail", "idle"} =>
       ~ENABLED (RetryRead \/ ReadSucceeds \/ TransportFailure \/ ResetCount \/ YieldResult)

C18_Reached ==
  /\ ndev = 2 /\ pc = "idle" /\ ~drained /\ ~surfaced
  /\ cycle = 1 /\ idx = 1 /\ Len(polled) = 1

(* C19: every poll completing as a success or as a failure, between polls *)
(* the tracked status is Offline exactly when the failure count has        *)
(* reached the threshold; so when update_device_state tests the count, a   *)
(* count at the threshold never comes with a status already Online; and    *)
(* the status is Unknown only while every poll so far has failed and the   *)
(* count is below the threshold.                                            *)
BetweenPolls == pc \in {"idle", "created", "susp_ok", "susp_fail"}

C19_OfflineIffThreshold ==
  /\ BetweenPolls => (is_online = "False" <=> error_count >= errors_to_offline)
  /\ (pc = "reading" /\ error_count >= errors_to_offline) => is_online = "False"
  /\ (BetweenPolls /\ is_online = "None") =>
       (error_count < errors_to_offline /\ error_count = polls)

C19_Reached ==
  /\ ~lateSeen /\ BetweenPolls /\ ndev = 2
  /\ is_online = "False" /\ error_count > errors_to_offline
  /\ \E i \in 1..Len(prevPolled) : prevPolled[i][2] = "success"

====
